---- MODULE Spec2Model ----
(***************************************************************************)
(* Model of openshot::PlayerPrivate (src/Qt/PlayerPrivate.cpp): the        *)
(* playback thread run(), getFrame(), startPlayback() and stopPlayback(),  *)
(* together with the running state of the three worker threads it starts   *)
(* and stops.                                                              *)
(*                                                                         *)
(* Time: frame_duration is the double 1000.0 / (double(num) / double(den)) *)
(* milliseconds of the reader's fps = num / den; render_time is measured   *)
(* in microseconds and converted to a double of milliseconds; sleep_time   *)
(* is a whole number of milliseconds (duration_cast<ms> truncates toward   *)
(* zero).                                                                  *)
(***************************************************************************)
EXTENDS Integers, FiniteSets, Sequences, TLC

VARIABLES
    reader,               \* NoReader, or the attached reader's info
    video_position,       \* PlayerPrivate::video_position
    audio_position,       \* PlayerPrivate::audio_position
    last_video_position,  \* PlayerPrivate::last_video_position
    speed,                \* PlayerPrivate::speed
    frame,                \* PlayerPrivate::frame: NoFrame or the frame's number
    vp_frame,             \* videoPlayback->frame, the renderer's slot
    audio_running,        \* audioPlayback->isThreadRunning()
    cache_running,        \* videoCache->isThreadRunning()
    video_running,        \* videoPlayback->isThreadRunning()
    thread_running,       \* this->isThreadRunning()
    should_exit,          \* this->threadShouldExit()
    pc,                   \* where the player thread is inside run()
    get_calls,            \* calls the last getFrame() made on its collaborators
    entry_position,       \* video_position on entry of the last getFrame()
    video_frame_diff,     \* run(): local video_frame_diff
    render_time,          \* run(): local render_time, in microseconds
    sleep_time,           \* run(): local sleep_time, in milliseconds
    sleep_kind,           \* how the last iteration ended: "none", "pause", "drift"
    m_pc,                 \* where the controlling thread is inside start/stopPlayback
    m_op,                 \* the operation the controlling thread runs or last ran
    start_result,         \* what the last startPlayback() returned
    sleep_for,            \* the sleep_for argument of this iteration: its unit and count
    run_calls,            \* calls made by lines 81-98 of this iteration, in order
    handoff_position,     \* video_position at the latest handoff to the renderer
    handed,               \* a handoff to the renderer has happened
    render_pending,       \* videoPlayback->render is signalled and not yet taken
    taken,                \* the renderer has taken the frame that is in its slot
    lost,                 \* a frame in the slot was overwritten before it was taken
    displayed,            \* the frame the renderer took last
    stop_request,         \* the unit the last step of stopPlayback() asked to stop
    info_read,            \* the last step of stopPlayback() has read reader->info
    audio_clock,          \* playing time of the audio thread, in microseconds
    prev_drift,           \* <<video_frame_diff, sleep_time>> of the latest rendering iteration
    drift_before          \* the same pair of the rendering iteration before that one

vars == <<reader, video_position, audio_position, last_video_position, speed,
          frame, vp_frame, audio_running, cache_running, video_running,
          thread_running, should_exit, pc, get_calls, entry_position,
          video_frame_diff, render_time, sleep_time, sleep_kind,
          m_pc, m_op, start_result, sleep_for, run_calls, handoff_position,
          handed, render_pending, taken, lost, displayed, stop_request,
          info_read, audio_clock, prev_drift, drift_before>>

playback == <<video_position, audio_position, last_video_position, speed,
              frame, vp_frame, get_calls, entry_position, video_frame_diff,
              render_time, sleep_time, sleep_kind, sleep_for, run_calls,
              handoff_position, handed, render_pending, taken, lost>>

\* The attached reader and what lies outside the player: the renderer's
\* screen and the audio clock.
env == <<reader, displayed, audio_clock, prev_drift, drift_before>>

units == <<audio_running, cache_running, video_running, thread_running>>

\* ------------------------------------------------------------------ bounds

VideoLength == 16
MaxSpeed == 2

\* Length of the stream in the timed runs.
DriftLength == 100

\* Frames of audio after the last video frame.
AudioTail == 24

\* ------------------------------------------------------- program constants

max_sleep_ms == 3000
MsPerSecond == 1000
SkipThreshold == 10
MantissaBits == 53

\* ------------------------------------------------------------------ inputs

\* The empty frame pointer (line 167).
NoFrame == 0

\* startPlayback() results; NoResult while no call has returned.
NoResult == "none"
ResultTrue == "true"
ResultFalse == "false"

\* reader->info.fps as num/den: 24 fps, 2000 fps and one frame every 4 s.
FpsSet == {<<24, 1>>, <<2000, 1>>, <<1, 4>>}

\* The rates of the timed runs.
DriftFps == {<<25, 1>>, <<24, 1>>}

\* reader->info of an attached reader, and the reader pointer NULL.
Readers == [attached : {TRUE}, has_audio : BOOLEAN, has_video : BOOLEAN,
            fps : FpsSet, video_length : {VideoLength}]

NoReader == [attached |-> FALSE, has_audio |-> FALSE, has_video |-> FALSE,
             fps |-> <<1, 1>>, video_length |-> 0]

Speeds == (0 - 1) .. MaxSpeed

\* video_position when playback is set up (a seek may precede startPlayback).
StartPositions == {0 - 1, 0, 1, 2, VideoLength - 1, VideoLength}

\* What audioPlayback->getCurrentFramePosition() may report, as the distance
\* video_position - audio_position; the audio position is never negative.
FrameDiffs == {0 - 20, 0 - 15, 0 - 11, 0 - 10, 0 - 1, 0, 1, 15}

AudioPositions(p) == {a \in {p - d : d \in FrameDiffs} : a >= 0}

\* Measured render times, in microseconds.
RenderTimes == {500, 50000}

\* ----------------------------------------------------------------- helpers

Abs(x) == IF x < 0 THEN 0 - x ELSE x

\* Integer conversion of a C++ floating value a/b (b > 0): toward zero.
TruncDiv(a, b) == IF a >= 0 THEN a \div b ELSE 0 - ((0 - a) \div b)

HasBoth(r) == r.has_audio /\ r.has_video

\* Microseconds per millisecond (render_time is kept in microseconds).
UsPerMs == MsPerSecond

\* Faulty variant: the upper limit of the advance is off by one.
AdvanceShort(p, s, len) ==
    IF p + s >= 1 /\ p + s < len THEN p + s ELSE p

\* Faulty variant: the advance has no lower limit.
AdvanceNoFloor(p, s, len) ==
    IF p + s <= len THEN p + s ELSE p

\* getFrame(), lines 146-147: the position after the advance by speed.
Advance(p, s, len) ==
    IF p + s >= 1 /\ p + s <= len THEN p + s ELSE p

\* Faulty variant: the held frame is compared with the wrong sense.
ReuseFrameWrong(f, p, last) ==
    f # NoFrame /\ f # p /\ p = last

\* getFrame(), line 149: the held frame is returned again.
ReuseFrame(f, p, last) ==
    f # NoFrame /\ f = p /\ p = last

\* reader->GetFrame(p), lines 159-167: the frame numbered p, or an empty
\* frame after ReaderClosed (at any position) or OutOfBoundsFrame.
ReaderGetFrame(p, len) ==
    IF p >= 1 /\ p <= len THEN {p, NoFrame} ELSE {NoFrame}

\* Faulty variant: a failed fetch is not caught and ends run().
AfterGetFrameUncaught(f) ==
    IF f = NoFrame THEN "none" ELSE "guard"

\* getFrame(), lines 162-168: both exceptions are caught, so run() goes on
\* at line 73 whatever frame f the call returned.
AfterGetFrame(f) ==
    "guard"

\* Faulty variant: the guard does not test for a paused player.
PauseGuardEndOnly(s, p, last, len) ==
    p > len

\* Faulty variant: the guard does not test for the end of the stream.
PauseGuardNoEnd(s, p, last, len) ==
    s = 0 /\ p = last

\* run(), lines 73-74: the pause / end-of-stream guard.
PauseGuard(s, p, last, len) ==
    (s = 0 /\ p = last) \/ (p > len)

\* ------------------------------------------------- double arithmetic
\* frame_duration, render_time and their sums are C++ doubles.  A double is
\* kept as [neg, m, e] with the value m * 2^e, m a natural number written in
\* digits of LimbBits bits, lowest first and without leading zeros; every
\* operation is computed exactly and then rounded to MantissaBits binary
\* digits, to nearest, ties to even.

LimbBits == 15
Base == 2 ^ LimbBits

RECURSIVE NatLimbs(_)
NatLimbs(n) ==
    IF n = 0 THEN <<>> ELSE <<n % Base>> \o NatLimbs(n \div Base)

RECURSIVE LimbsNat(_)
LimbsNat(a) ==
    IF a = <<>> THEN 0 ELSE Head(a) + Base * LimbsNat(Tail(a))

RECURSIVE Strip(_)
Strip(a) ==
    IF a = <<>> THEN <<>>
    ELSE IF a[Len(a)] = 0 THEN Strip(SubSeq(a, 1, Len(a) - 1))
    ELSE a

Limb(a, i) == IF i >= 1 /\ i <= Len(a) THEN a[i] ELSE 0

\* The number of binary digits of one digit x.
RECURSIVE LimbLen(_)
LimbLen(x) == IF x = 0 THEN 0 ELSE 1 + LimbLen(x \div 2)

\* The number of binary digits of a.
BitLen(a) ==
    IF a = <<>> THEN 0 ELSE LimbBits * (Len(a) - 1) + LimbLen(a[Len(a)])

\* Binary digit i of a, the lowest being digit 1.
Bit(a, i) ==
    (Limb(a, ((i - 1) \div LimbBits) + 1) \div (2 ^ ((i - 1) % LimbBits))) % 2

RECURSIVE AddFrom(_, _, _, _)
AddFrom(a, b, i, carry) ==
    IF i > Len(a) /\ i > Len(b)
    THEN (IF carry = 0 THEN <<>> ELSE <<carry>>)
    ELSE <<(Limb(a, i) + Limb(b, i) + carry) % Base>>
            \o AddFrom(a, b, i + 1, (Limb(a, i) + Limb(b, i) + carry) \div Base)

BigAdd(a, b) == AddFrom(a, b, 1, 0)

RECURSIVE SubFrom(_, _, _, _)
SubFrom(a, b, i, borrow) ==
    IF i > Len(a) THEN <<>>
    ELSE <<(Base + Limb(a, i) - Limb(b, i) - borrow) % Base>>
            \o SubFrom(a, b, i + 1,
                       IF Limb(a, i) - Limb(b, i) - borrow < 0 THEN 1 ELSE 0)

\* a - b for a >= b.
BigSub(a, b) == Strip(SubFrom(a, b, 1, 0))

RECURSIVE LessAt(_, _, _)
LessAt(a, b, i) ==
    IF i = 0 THEN FALSE
    ELSE IF a[i] # b[i] THEN a[i] < b[i]
    ELSE LessAt(a, b, i - 1)

BigLess(a, b) ==
    IF Len(a) # Len(b) THEN Len(a) < Len(b) ELSE LessAt(a, b, Len(a))

\* a * x for one digit x.
RECURSIVE ScaleFrom(_, _, _, _)
ScaleFrom(a, x, i, carry) ==
    IF i > Len(a) THEN (IF carry = 0 THEN <<>> ELSE <<carry>>)
    ELSE <<((a[i] * x) + carry) % Base>>
            \o ScaleFrom(a, x, i + 1, ((a[i] * x) + carry) \div Base)

Scale(a, x) == IF x = 0 THEN <<>> ELSE ScaleFrom(a, x, 1, 0)

\* a * Base^k.
ShiftLimbs(a, k) ==
    IF a = <<>> THEN <<>> ELSE [i \in 1 .. k |-> 0] \o a

\* k binary digits are WholeLimbs(k) digits and RestBits(k) binary digits.
WholeLimbs(k) == k \div LimbBits
RestBits(k) == k % LimbBits

\* a * 2^k.
ShiftL(a, k) ==
    ShiftLimbs(Scale(a, 2 ^ RestBits(k)), WholeLimbs(k))

\* a \div 2^k.
ShiftR(a, k) ==
    Strip([i \in 1 .. (Len(a) - WholeLimbs(k)) |->
              (Limb(a, i + WholeLimbs(k)) \div (2 ^ RestBits(k)))
                 + (Limb(a, i + WholeLimbs(k) + 1) % (2 ^ RestBits(k)))
                       * (2 ^ (LimbBits - RestBits(k)))])

RECURSIVE MulFrom(_, _, _)
MulFrom(a, b, j) ==
    IF j > Len(b) THEN <<>>
    ELSE BigAdd(Scale(a, b[j]), ShiftLimbs(MulFrom(a, b, j + 1), 1))

BigMul(a, b) == MulFrom(a, b, 1)

\* One step of the long division by d in binary: with the next binary digit
\* of the dividend brought down the remainder is r, and the next binary
\* digit of the quotient q is found.
DivDigit(q, r, d) ==
    IF BigLess(r, d) THEN <<Scale(q, 2), r>>
    ELSE <<BigAdd(Scale(q, 2), <<1>>), BigSub(r, d)>>

DivStep(st, n, d, i) ==
    DivDigit(st[1], BigAdd(Scale(st[2], 2), NatLimbs(Bit(n, i))), d)

\* The steps for the binary digits hi down to lo of n, the upper half first.
RECURSIVE DivRange(_, _, _, _, _)
RECURSIVE DivLower(_, _, _, _, _)
DivRange(st, n, d, hi, lo) ==
    IF hi < lo THEN st
    ELSE IF hi = lo THEN DivStep(st, n, d, hi)
    ELSE DivLower(DivRange(st, n, d, hi, (hi + lo) \div 2 + 1),
                  n, d, (hi + lo) \div 2, lo)

DivLower(upper, n, d, mid, lo) ==
    IF Len(upper) = 2 THEN DivRange(upper, n, d, mid, lo) ELSE upper

\* <<quotient, remainder>> of n by d.
BigDivMod(n, d) ==
    DivRange(<< <<>>, <<>> >>, n, d, BitLen(n), 1)

\* The binary digits of q that do not fit in MantissaBits digits.
Dropped(q) ==
    IF BitLen(q) > MantissaBits THEN BitLen(q) - MantissaBits ELSE 0

\* The binary digits of q that are kept.
Kept(q) == ShiftR(q, Dropped(q))

\* Rounding to nearest, ties to even: q is followed by a nonzero rest when
\* sticky; the kept digits are rounded up when the dropped part is more than
\* half a unit, or exactly half and the last kept digit is odd.
RoundsUp(q, sticky) ==
    /\ Dropped(q) > 0
    /\ Bit(q, Dropped(q)) = 1
    /\ \/ sticky
       \/ \E i \in 1 .. Dropped(q) - 1 : Bit(q, i) = 1
       \/ Bit(q, Dropped(q) + 1) = 1

\* The double nearest to q * 2^e (and a little more when sticky), negated
\* if neg.
DRound(neg, q, sticky, e) ==
    IF q = <<>> THEN [neg |-> FALSE, m |-> <<>>, e |-> 0]
    ELSE [neg |-> neg,
          m |-> IF RoundsUp(q, sticky) THEN BigAdd(Kept(q), <<1>>) ELSE Kept(q),
          e |-> e + Dropped(q)]

\* static_cast<double> of an integer.
DFromInt(n) == [neg |-> n < 0, m |-> NatLimbs(Abs(n)), e |-> 0]

\* The dividend is shifted so that the quotient has at least two binary
\* digits more than MantissaBits.
DivShift(n, d) ==
    IF MantissaBits + 2 + BitLen(d) > BitLen(n)
    THEN MantissaBits + 2 + BitLen(d) - BitLen(n) ELSE 0

DivRound(neg, x, e) == DRound(neg, x[1], x[2] # <<>>, e)

DDiv(a, b) ==
    DivRound(a.neg # b.neg,
             BigDivMod(ShiftL(a.m, DivShift(a.m, b.m)), b.m),
             a.e - b.e - DivShift(a.m, b.m))

DMul(a, b) == DRound(a.neg # b.neg, BigMul(a.m, b.m), FALSE, a.e + b.e)

\* a - b for two doubles with the same exponent e.
SubAligned(aneg, am, bneg, bm, e) ==
    IF aneg # bneg THEN DRound(aneg, BigAdd(am, bm), FALSE, e)
    ELSE IF BigLess(am, bm) THEN DRound(~aneg, BigSub(bm, am), FALSE, e)
    ELSE DRound(aneg, BigSub(am, bm), FALSE, e)

Least(x, y) == IF x < y THEN x ELSE y

DSub(a, b) ==
    SubAligned(a.neg, ShiftL(a.m, a.e - Least(a.e, b.e)),
               b.neg, ShiftL(b.m, b.e - Least(a.e, b.e)), Least(a.e, b.e))

\* Conversion of a double to an integer: toward zero.
WholePart(m, e) ==
    IF e >= 0 THEN LimbsNat(ShiftL(m, e)) ELSE LimbsNat(ShiftR(m, 0 - e))

Signed(neg, n) == IF neg THEN 0 - n ELSE n

DTrunc(a) == Signed(a.neg, WholePart(a.m, a.e))

\* run(), line 63: double_ms(1000.0 / reader->info.fps.ToDouble()), where
\* ToDouble() is double(num) / double(den).
FrameDurationOf(fps) ==
    DDiv(DFromInt(MsPerSecond), DDiv(DFromInt(fps[1]), DFromInt(fps[2])))

\* run(), line 104: double_ms(time2 - time1), the clock difference rt in
\* microseconds.
RenderTimeOf(rt) ==
    DDiv(DFromInt(rt), DFromInt(UsPerMs))

\* run(), line 107: duration_cast<ms>(frame_duration - render_time).
SleepTimeOf(fps, rt) ==
    DTrunc(DSub(FrameDurationOf(fps), RenderTimeOf(rt)))

\* run(), line 121: duration_cast<ms>(video_frame_diff * frame_duration).
DriftExtraOf(fps, d) ==
    DTrunc(DMul(DFromInt(d), FrameDurationOf(fps)))

\* The stream rates and the leads the specifications use; the values that
\* depend only on them are computed once.
KnownFps == FpsSet \cup DriftFps \cup {NoReader.fps}
KnownLeads == 1 .. 2 * DriftLength

FrameDurations == [f \in KnownFps |-> FrameDurationOf(f)]

\* run(), line 63: frame_duration, a double of milliseconds.
frame_duration(fps) ==
    IF fps \in KnownFps THEN FrameDurations[fps] ELSE FrameDurationOf(fps)

FrameWholes == [f \in KnownFps |-> DTrunc(FrameDurations[f])]

\* The whole milliseconds in frame_duration: a whole number n is at most
\* frame_duration exactly when n <= FrameWhole, and frame_duration is below
\* n exactly when FrameWhole < n.
FrameWhole(fps) ==
    IF fps \in KnownFps THEN FrameWholes[fps] ELSE DTrunc(FrameDurationOf(fps))

BaseSleeps == [f \in KnownFps |-> [rt \in RenderTimes |-> SleepTimeOf(f, rt)]]

DriftExtras == [f \in KnownFps |-> [d \in KnownLeads |-> DriftExtraOf(f, d)]]

\* Faulty variant: the render time is added instead of subtracted.
BaseSleepAdded(fps, rt) ==
    TruncDiv(MsPerSecond * UsPerMs * fps[2] + rt * fps[1], UsPerMs * fps[1])

\* run(), line 107: duration_cast<ms>(frame_duration - render_time).
BaseSleep(fps, rt) ==
    IF fps \in KnownFps /\ rt \in RenderTimes THEN BaseSleeps[fps][rt]
    ELSE SleepTimeOf(fps, rt)

\* Faulty variant: the drift is scaled by seconds per frame, not milliseconds.
DriftExtraSeconds(fps, d) ==
    TruncDiv(d * fps[2], fps[1])

\* run(), line 121: duration_cast<ms>(video_frame_diff * frame_duration).
DriftExtra(fps, d) ==
    IF fps \in KnownFps /\ d \in KnownLeads THEN DriftExtras[fps][d]
    ELSE DriftExtraOf(fps, d)

\* run(), line 113: the video is ahead of the audio.
VideoAhead(d, r) == d > 0 /\ r.has_audio /\ r.has_video

\* Faulty variant: the skip threshold is inclusive.
VideoBehindInclusive(d, r) == d <= 0 - SkipThreshold /\ r.has_audio /\ r.has_video

\* run(), line 124: the video is more than ten frames behind the audio.
VideoBehind(d, r) == d < 0 - SkipThreshold /\ r.has_audio /\ r.has_video

\* Faulty variant: half the difference is rounded up.
SkipAheadRoundUp(p, d) ==
    TruncDiv(2 * p + Abs(d) + 1, 2)

\* run(), line 126: video_position += std::fabs(video_frame_diff) / 2, the
\* sum computed in double and converted back to the integer position.
SkipAhead(p, d) ==
    TruncDiv(2 * p + Abs(d), 2)

\* run(), lines 113-128: the sleep time after drift correction.
AdjustedSleep(r, d, rt) ==
    IF VideoAhead(d, r) THEN BaseSleep(r.fps, rt) + DriftExtra(r.fps, d)
    ELSE IF VideoBehind(d, r) THEN 0
    ELSE BaseSleep(r.fps, rt)

\* Faulty variant: the upper limit on the sleep is missing.
WillSleepUnbounded(ms) ==
    ms > 0

\* run(), line 134: whether the loop sleeps for sleep_time.
WillSleep(ms) ==
    ms > 0 /\ ms < max_sleep_ms

\* Faulty variant: position zero is refused too.
StartRefusedZero(p) ==
    p <= 0

\* startPlayback(), line 173.
StartRefused(p) ==
    p < 0

\* The argument of a sleep_for call is count units: a whole number of
\* std::chrono::milliseconds ("ms") or a double of double_ms ("double_ms").
\* No sleep_for call in this iteration.
NoSleep == [unit |-> "none", count |-> 0]

\* run(), line 135: sleep_for(sleep_time), whole milliseconds.
MsSleep(n) == [unit |-> "ms", count |-> n]

\* Faulty variant: the pause sleeps a whole number of milliseconds.
PauseDurationWholeMs(fps) ==
    MsSleep(TruncDiv(MsPerSecond * fps[2], fps[1]))

\* run(), line 77: sleep_for(frame_duration), the double of line 63.
PauseDuration(fps) ==
    [unit |-> "double_ms", count |-> frame_duration(fps)]

NsPerMs == UsPerMs * MsPerSecond
NsPerUs == MsPerSecond

\* std::this_thread::sleep_for of d double_ms with s whole seconds in it:
\* the rest is cut to whole nanoseconds; the sum in whole microseconds.
SecondsAndRest(d, s) ==
    s * MsPerSecond * UsPerMs
        + TruncDiv(DTrunc(DMul(DSub(d, DFromInt(s * MsPerSecond)),
                               DFromInt(NsPerMs))), NsPerUs)

\* The whole microseconds a sleep_for of d double_ms lasts.
DoubleMicrosOf(d) ==
    SecondsAndRest(d, DTrunc(DDiv(d, DFromInt(MsPerSecond))))

KnownDurations == {FrameDurations[f] : f \in KnownFps}

DoubleMicros == [d \in KnownDurations |-> DoubleMicrosOf(d)]

\* The whole microseconds the sleep_for call with argument arg lasts.
SleepMicros(arg) ==
    IF arg.unit = "double_ms"
    THEN (IF arg.count \in KnownDurations THEN DoubleMicros[arg.count]
          ELSE DoubleMicrosOf(arg.count))
    ELSE UsPerMs * arg.count

\* Faulty variant: the handoff waits until the renderer has taken the slot.
HandoffWaits(pending) ==
    ~pending

\* run(), lines 82-83: the frame is assigned and the renderer signalled
\* without looking at what the renderer has done with the previous one.
HandoffReady(pending) ==
    TRUE

\* Faulty variant: an empty frame is not handed over, the slot keeps its frame.
HandedFrameChecked(f, old) ==
    IF f = NoFrame THEN old ELSE f

\* run(), line 82: the frame assigned to videoPlayback->frame, empty or not.
HandedFrame(f, old) ==
    f

\* run(), lines 82-83, as calls on the video thread.
HandoffCalls(f) ==
    << <<"frame", f>>, <<"signal">> >>

\* Faulty variant: the audio is re-sought at normal speed too.
AudioCallsAlwaysSeek(r, s, p) ==
    IF r.has_audio /\ r.has_video
    THEN << <<"Seek", p>>, <<"getCurrentFramePosition">> >>
    ELSE <<>>

\* run(), lines 90-96, as calls on the audio thread.
AudioCalls(r, s, p) ==
    IF r.has_audio /\ r.has_video
    THEN (IF s # 1 THEN << <<"Seek", p>> >> ELSE <<>>)
            \o << <<"getCurrentFramePosition">> >>
    ELSE <<>>

\* Faulty variant: last_video_position is taken after the drift correction.
LastAfterCorrection(before, after) ==
    after

\* run(), line 86: last_video_position is the position handed over, taken
\* before the drift correction moves video_position.
LastDisplayed(before, after) ==
    before

\* Faulty variant: the stream flag is tested before isThreadRunning().
ReadsInfoFirst(running) ==
    TRUE

\* stopPlayback(), lines 183-185: reader->info is read only after
\* isThreadRunning() has answered true.
ReadsInfo(running) ==
    running

\* No stopThread request.
NoUnit == "none"

\* stopPlayback(), lines 183-186: the stopThread request, if it is made.
StopRequest(unit, running, present) ==
    IF running /\ present THEN unit ELSE NoUnit

\* ------------------------------------------------------------------- state

Init ==
    /\ reader \in {NoReader} \cup Readers
    /\ video_position \in StartPositions
    /\ audio_position = 0
    /\ last_video_position = 1
    /\ speed \in Speeds
    /\ frame = NoFrame
    /\ vp_frame = NoFrame
    /\ audio_running = FALSE
    /\ cache_running = FALSE
    /\ video_running = FALSE
    /\ thread_running = FALSE
    /\ should_exit = FALSE
    /\ pc = "none"
    /\ get_calls = {}
    /\ entry_position = video_position
    /\ video_frame_diff = 0
    /\ render_time = 0
    /\ sleep_time = 0
    /\ sleep_kind = "none"
    /\ m_pc = "idle"
    /\ m_op = "none"
    /\ start_result = NoResult
    /\ sleep_for = NoSleep
    /\ run_calls = <<>>
    /\ handoff_position = 1
    /\ handed = FALSE
    /\ render_pending = FALSE
    /\ taken = FALSE
    /\ lost = FALSE
    /\ displayed = NoFrame
    /\ stop_request = NoUnit
    /\ info_read = FALSE
    /\ audio_clock = 0
    /\ prev_drift = <<0, 0>>
    /\ drift_before = <<0, 0>>

main == <<m_pc, m_op, start_result, stop_request, info_read>>

\* ----------------------------------------------------- the player thread

\* run(), lines 45-50: bail out without a reader, else start the audio thread.
RunBegin ==
    /\ pc = "begin"
    /\ IF reader = NoReader
       THEN /\ pc' = "none"
            /\ thread_running' = FALSE
            /\ UNCHANGED audio_running
       ELSE /\ pc' = "start_cache"
            /\ audio_running' = (audio_running \/ reader.has_audio)
            /\ UNCHANGED thread_running
    /\ UNCHANGED <<env, playback, cache_running, video_running, should_exit, main>>

\* run(), lines 51-52: start the cache thread.
RunStartCache ==
    /\ pc = "start_cache"
    /\ pc' = "start_video"
    /\ cache_running' = (cache_running \/ reader.has_video)
    /\ UNCHANGED <<env, playback, audio_running, video_running, thread_running,
                   should_exit, main>>

\* run(), line 53: start the video thread; the controlling thread may have
\* run since the cache thread was started.
RunStartVideo ==
    /\ pc = "start_video"
    /\ pc' = "top"
    /\ video_running' = (video_running \/ reader.has_video)
    /\ UNCHANGED <<env, playback, audio_running, cache_running, thread_running,
                   should_exit, main>>

\* run(), line 65: the loop condition; run() returns once the flag is seen.
LoopTop ==
    /\ pc = "top"
    /\ IF should_exit
       THEN /\ pc' = "none"
            /\ thread_running' = FALSE
       ELSE /\ pc' = "get"
            /\ UNCHANGED thread_running
    /\ video_frame_diff' = 0
    /\ render_time' = 0
    /\ sleep_time' = 0
    /\ sleep_for' = NoSleep
    /\ run_calls' = <<>>
    /\ UNCHANGED <<env, video_position, audio_position, last_video_position,
                   speed, frame, vp_frame, get_calls, entry_position, sleep_kind,
                   handoff_position, handed, render_pending, taken, lost,
                   audio_running, cache_running, video_running, should_exit, main>>

\* run(), line 70 with getFrame(), lines 142-168.
GetFrame ==
    /\ pc = "get"
    /\ entry_position' = video_position
    /\ video_position' = Advance(video_position, speed, reader.video_length)
    /\ IF ReuseFrame(frame, video_position', last_video_position)
       THEN /\ frame' = frame
            /\ get_calls' = {}
       ELSE /\ frame' \in ReaderGetFrame(video_position', reader.video_length)
            /\ get_calls' = {"setCurrentFramePosition", "GetFrame"}
    /\ pc' = AfterGetFrame(frame')
    /\ UNCHANGED <<env, audio_position, last_video_position, speed, vp_frame,
                   video_frame_diff, render_time, sleep_time, sleep_kind,
                   sleep_for, run_calls, handoff_position, handed,
                   render_pending, taken, lost, units, should_exit, main>>

\* run(), lines 73-79: the guard holds; pause and sleep one frame_duration.
PauseSleep ==
    /\ pc = "guard"
    /\ PauseGuard(speed, video_position, last_video_position, reader.video_length)
    /\ speed' = 0
    /\ pc' = "sleep"
    /\ sleep_kind' = "pause"
    /\ sleep_for' = PauseDuration(reader.fps)
    /\ run_calls' = <<>>
    /\ UNCHANGED <<env, video_position, audio_position, last_video_position,
                   frame, vp_frame, get_calls, entry_position, video_frame_diff,
                   render_time, sleep_time, handoff_position, handed,
                   render_pending, taken, lost, units, should_exit, main>>

\* run(), line 82: the guard does not hold; the frame is assigned to the
\* video thread's slot.  The video thread may run before line 83.
AssignFrame ==
    /\ pc = "guard"
    /\ ~PauseGuard(speed, video_position, last_video_position, reader.video_length)
    /\ HandoffReady(render_pending)
    /\ vp_frame' = HandedFrame(frame, vp_frame)
    /\ taken' = FALSE
    /\ lost' = (lost \/ (handed /\ ~taken))
    /\ run_calls' = SubSeq(HandoffCalls(vp_frame'), 1, 1)
    /\ pc' = "signal"
    /\ UNCHANGED <<env, video_position, audio_position, last_video_position,
                   speed, frame, get_calls, entry_position, video_frame_diff,
                   render_time, sleep_time, sleep_kind, sleep_for,
                   handoff_position, handed, render_pending, units,
                   should_exit, main>>

\* run(), lines 83-136: signal the video thread, measure the drift, correct
\* it.  audios is what getCurrentFramePosition() may report, times what the
\* clock may measure as render_time.
RenderBody(audios, times) ==
    /\ pc = "signal"
    /\ render_pending' = TRUE
    /\ handoff_position' = video_position
    /\ handed' = TRUE
    /\ run_calls' = HandoffCalls(vp_frame) \o AudioCalls(reader, speed, video_position)
    /\ IF HasBoth(reader)
       THEN /\ audio_position' \in audios
            /\ video_frame_diff' = video_position - audio_position'
       ELSE /\ audio_position' = audio_position
            /\ video_frame_diff' = 0
    /\ render_time' \in times
    /\ sleep_time' = AdjustedSleep(reader, video_frame_diff', render_time')
    /\ video_position' = IF ~VideoAhead(video_frame_diff', reader)
                            /\ VideoBehind(video_frame_diff', reader)
                         THEN SkipAhead(video_position, video_frame_diff')
                         ELSE video_position
    /\ last_video_position' = LastDisplayed(video_position, video_position')
    /\ IF WillSleep(sleep_time')
       THEN pc' = "sleep" /\ sleep_kind' = "drift"
                          /\ sleep_for' = MsSleep(sleep_time')
       ELSE pc' = "top" /\ sleep_kind' = "none" /\ sleep_for' = NoSleep
    /\ UNCHANGED <<reader, speed, frame, vp_frame, taken, lost, get_calls,
                   entry_position, units, should_exit, main>>

\* One rendering iteration, the audio thread and the clock left free.
Render ==
    /\ RenderBody(AudioPositions(video_position), RenderTimes)
    /\ UNCHANGED <<displayed, audio_clock, prev_drift, drift_before>>

\* std::this_thread::sleep_for returns (lines 77 and 135).
Wake ==
    /\ pc = "sleep"
    /\ pc' = "top"
    /\ UNCHANGED <<env, playback, units, should_exit, main>>

\* ------------------------------------------------- the controlling thread

\* Thread::stopThread(max_sleep_ms) on a worker: the worker has exited, or
\* has been killed after the timeout, when the call returns.
StopWorker(running, present) ==
    IF running /\ present THEN FALSE ELSE running

\* After stopPlayback(): back to the caller, or on to line 176.
AfterStop ==
    IF m_op = "start" THEN "start_thread" ELSE "idle"

\* startPlayback(), lines 173-175.
StartPlayback ==
    /\ m_pc = "idle"
    /\ m_op' = "start"
    /\ IF StartRefused(video_position)
       THEN /\ start_result' = ResultFalse
            /\ m_pc' = "idle"
            /\ UNCHANGED <<stop_request, info_read>>
       ELSE /\ start_result' = NoResult
            /\ m_pc' = "stop_audio"
            /\ stop_request' = NoUnit
            /\ info_read' = FALSE
    /\ UNCHANGED <<env, playback, units, should_exit, pc>>

\* A call of stopPlayback() by the owner of the player.
StopPlayback ==
    /\ m_pc = "idle"
    /\ m_op' = "stop"
    /\ m_pc' = "stop_audio"
    /\ stop_request' = NoUnit
    /\ info_read' = FALSE
    /\ UNCHANGED <<env, playback, units, should_exit, pc, start_result>>

\* stopPlayback(), line 183. reader is read only when the thread is running.
StopAudio ==
    /\ m_pc = "stop_audio"
    /\ m_pc' = "stop_cache"
    /\ audio_running' = StopWorker(audio_running, audio_running /\ reader.has_audio)
    /\ info_read' = ReadsInfo(audio_running)
    /\ stop_request' = StopRequest("audio", audio_running, reader.has_audio)
    /\ UNCHANGED <<env, playback, cache_running, video_running, thread_running,
                   should_exit, pc, m_op, start_result>>

\* stopPlayback(), line 184.
StopCache ==
    /\ m_pc = "stop_cache"
    /\ m_pc' = "stop_video"
    /\ cache_running' = StopWorker(cache_running, cache_running /\ reader.has_video)
    /\ info_read' = ReadsInfo(cache_running)
    /\ stop_request' = StopRequest("cache", cache_running, reader.has_video)
    /\ UNCHANGED <<env, playback, audio_running, video_running, thread_running,
                   should_exit, pc, m_op, start_result>>

\* stopPlayback(), line 185.
StopVideo ==
    /\ m_pc = "stop_video"
    /\ m_pc' = "stop_self"
    /\ video_running' = StopWorker(video_running, video_running /\ reader.has_video)
    /\ info_read' = ReadsInfo(video_running)
    /\ stop_request' = StopRequest("video", video_running, reader.has_video)
    /\ UNCHANGED <<env, playback, audio_running, cache_running, thread_running,
                   should_exit, pc, m_op, start_result>>

\* stopPlayback(), line 186: isThreadRunning(), then stopThread() raises the
\* exit flag and waits for run() to return.
StopSelf ==
    /\ m_pc = "stop_self"
    /\ IF thread_running
       THEN /\ should_exit' = TRUE
            /\ m_pc' = "wait_exit"
       ELSE /\ UNCHANGED should_exit
            /\ m_pc' = AfterStop
    /\ stop_request' = StopRequest("player", thread_running, TRUE)
    /\ info_read' = FALSE
    /\ UNCHANGED <<env, playback, units, pc, m_op, start_result>>

\* stopThread(), line 186: run() has returned within the timeout.
WaitExit ==
    /\ m_pc = "wait_exit"
    /\ ~thread_running
    /\ m_pc' = AfterStop
    /\ UNCHANGED <<env, playback, units, should_exit, pc, m_op, start_result,
                   stop_request, info_read>>

\* Whether the sleep the player thread is in can outlast stopThread's timeout.
SleepOutlastsTimeout ==
    /\ pc = "sleep"
    /\ IF sleep_kind = "pause"
       THEN FrameWhole(reader.fps) >= max_sleep_ms
       ELSE sleep_time >= max_sleep_ms

\* stopThread(), line 186: the timeout passes while run() still sleeps; the
\* thread is killed.
KillThread ==
    /\ m_pc = "wait_exit"
    /\ thread_running
    /\ SleepOutlastsTimeout
    /\ thread_running' = FALSE
    /\ pc' = "none"
    /\ m_pc' = AfterStop
    /\ UNCHANGED <<env, playback, audio_running, cache_running, video_running,
                   should_exit, m_op, start_result, stop_request, info_read>>

\* startPlayback(), lines 176-177: startThread() clears the exit flag and
\* launches run() unless the thread is running.
StartThread ==
    /\ m_pc = "start_thread"
    /\ should_exit' = FALSE
    /\ IF thread_running
       THEN UNCHANGED <<thread_running, pc>>
       ELSE thread_running' = TRUE /\ pc' = "begin"
    /\ start_result' = ResultTrue
    /\ m_pc' = "idle"
    /\ stop_request' = NoUnit
    /\ info_read' = FALSE
    /\ UNCHANGED <<env, playback, audio_running, cache_running, video_running, m_op>>

\* The video thread, woken by the render signal, takes the frame that is in
\* its slot at that moment and displays it.
RendererConsume ==
    /\ video_running
    /\ render_pending
    /\ displayed' = vp_frame
    /\ render_pending' = FALSE
    /\ taken' = TRUE
    /\ UNCHANGED <<reader, audio_clock, prev_drift, drift_before,
                   video_position, audio_position, last_video_position, speed, frame, vp_frame, get_calls,
                   entry_position, video_frame_diff, render_time, sleep_time,
                   sleep_kind, sleep_for, run_calls, handoff_position, handed,
                   lost, units, thread_running, should_exit, pc, main>>

\* ----------------------------------------------------------- specification

Next ==
    \/ RunBegin
    \/ RunStartCache
    \/ RunStartVideo
    \/ LoopTop
    \/ GetFrame
    \/ PauseSleep
    \/ AssignFrame
    \/ Render
    \/ Wake
    \/ StartPlayback
    \/ StopPlayback
    \/ StopAudio
    \/ StopCache
    \/ StopVideo
    \/ StopSelf
    \/ WaitExit
    \/ KillThread
    \/ StartThread

Spec == Init /\ [][Next]_vars

TypeOK ==
    /\ reader \in {NoReader} \cup Readers
    /\ pc \in {"none", "begin", "start_cache", "start_video", "top", "get", "guard",
              "signal", "sleep"}
    /\ sleep_for.unit \in {"none", "ms", "double_ms"}
    /\ m_pc \in {"idle", "stop_audio", "stop_cache", "stop_video", "stop_self",
                 "wait_exit", "start_thread"}
    /\ sleep_kind \in {"none", "pause", "drift"}
    /\ frame \in 0 .. VideoLength
    /\ speed \in Speeds
    /\ thread_running = (pc # "none")
    /\ stop_request \in {NoUnit, "audio", "cache", "video", "player"}
    /\ {info_read, handed, render_pending, taken, lost} \subseteq BOOLEAN
    /\ vp_frame \in 0 .. VideoLength
    /\ displayed \in 0 .. VideoLength

\* Playback set up at a position inside the stream of an attached reader.
InitInRange ==
    /\ Init
    /\ reader # NoReader
    /\ video_position >= 1
    /\ video_position <= reader.video_length

SpecInRange == InitInRange /\ [][Next]_vars

\* Playback of a video stream from the constructor's position, with the
\* video thread displaying what it is handed.
InitRender ==
    /\ Init
    /\ reader # NoReader
    /\ reader.has_video
    /\ ~reader.has_audio
    /\ video_position = 1
    /\ speed \in {0, 1}

NextRender == Next \/ RendererConsume

SpecRender == InitRender /\ [][NextRender]_vars

\* The position the audio thread reports when it has played for clock
\* microseconds: one frame per frame_duration, up to the end of its stream,
\* which lasts AudioTail frames longer than the video.
AudioFrame(clock, r) ==
    LET played == TruncDiv(clock * r.fps[1], MsPerSecond * UsPerMs * r.fps[2])
    IN  IF played < r.video_length + AudioTail THEN played
        ELSE r.video_length + AudioTail

\* The audio clock after it has run for us more microseconds; it stops at
\* the end of the audio stream.
ClockAfter(clock, us, r) ==
    LET end == (r.video_length + AudioTail) * MsPerSecond * UsPerMs * r.fps[2]
    IN  IF (clock + us) * r.fps[1] < end THEN clock + us
        ELSE TruncDiv(end + r.fps[1] - 1, r.fps[1])

\* run(), lines 83-136, with the time passing: the iteration takes one of
\* the measured render times, the audio thread plays on meanwhile and
\* reports its position at that moment.
RenderTimed ==
    \E rt \in RenderTimes :
        /\ RenderBody({AudioFrame(ClockAfter(audio_clock, rt, reader), reader)}, {rt})
        /\ audio_clock' = ClockAfter(audio_clock, rt, reader)
        /\ prev_drift' = <<video_frame_diff', sleep_for'.count>>
        /\ drift_before' = prev_drift
        /\ UNCHANGED displayed

\* run(), lines 77 and 135, with the time passing: the audio thread plays on
\* for the time the loop sleeps.
WakeTimed ==
    /\ pc = "sleep"
    /\ pc' = "top"
    /\ audio_clock' = ClockAfter(audio_clock, SleepMicros(sleep_for), reader)
    /\ UNCHANGED <<reader, displayed, prev_drift, drift_before, playback, units,
                   should_exit, main>>

\* Streams of 25 and 24 frames per second with audio and video.
DriftReaders ==
    [attached : {TRUE}, has_audio : {TRUE}, has_video : {TRUE},
     fps : DriftFps, video_length : {DriftLength}]

\* How many frames the video is ahead of the audio when playback starts.
DriftLeads == {0 - 30, 0, 1, 3, 74, 75, 79}

\* The position playback is started at in the timed runs.
DriftStart == DriftLength - 20

\* The first startPlayback() on a newly constructed player has just launched
\* run(): the position was set to DriftStart before the call, the speed is
\* the constructor's 1, last_video_position is the constructor's 1 and
\* nothing has been handed to the renderer. The audio thread is at some
\* distance from the video position.
InitDrift ==
    /\ reader \in DriftReaders
    /\ video_position = DriftStart
    /\ last_video_position = 1
    /\ handoff_position = 1
    /\ entry_position = video_position
    /\ speed = 1
    /\ \E lead \in DriftLeads :
          audio_clock = TruncDiv((video_position - lead) * MsPerSecond * UsPerMs
                                    * reader.fps[2], reader.fps[1])
    /\ audio_position = 0
    /\ frame = NoFrame
    /\ vp_frame = NoFrame
    /\ audio_running = FALSE
    /\ cache_running = FALSE
    /\ video_running = FALSE
    /\ thread_running = TRUE
    /\ should_exit = FALSE
    /\ pc = "begin"
    /\ get_calls = {}
    /\ video_frame_diff = 0
    /\ render_time = 0
    /\ sleep_time = 0
    /\ sleep_kind = "none"
    /\ sleep_for = NoSleep
    /\ run_calls = <<>>
    /\ handed = FALSE
    /\ render_pending = FALSE
    /\ taken = FALSE
    /\ lost = FALSE
    /\ displayed = NoFrame
    /\ m_pc = "idle"
    /\ m_op = "start"
    /\ start_result = ResultTrue
    /\ stop_request = NoUnit
    /\ info_read = FALSE
    /\ prev_drift = <<0, 0>>
    /\ drift_before = <<0, 0>>

\* The player thread alone, on the clock.
NextDrift ==
    \/ RunBegin
    \/ RunStartCache
    \/ RunStartVideo
    \/ LoopTop
    \/ GetFrame
    \/ PauseSleep
    \/ AssignFrame
    \/ RenderTimed
    \/ WakeTimed

\* run() is the only thread that takes steps here; it is scheduled again and
\* again and each of its sleeps ends.
SpecDrift == InitDrift /\ [][NextDrift]_vars /\ WF_vars(NextDrift)

\* Playback from the state the constructor leaves, with a reader attached
\* and the speed at its initial 1 or set to 0 before the start.
InitCtor ==
    /\ Init
    /\ reader # NoReader
    /\ video_position = 1
    /\ speed \in {0, 1}

SpecCtor == InitCtor /\ [][Next]_vars

\* ------------------------------------------------------------- properties

\* The step that is one call of getFrame().
GetFrameStep == pc = "get" /\ pc' = "guard"

\* The step that assigns the frame to the renderer's slot: line 82.
AssignStep == pc = "guard" /\ pc' = "signal"

\* The step that signals and renders: lines 83-136 of one iteration.
RenderStep == pc = "signal" /\ pc' # "signal"

\* The whole milliseconds in the frame_duration of the attached stream.
FdWhole == FrameWhole(reader.fps)

\* The whole milliseconds in video_frame_diff * frame_duration.
LeadWhole == DriftExtras[reader.fps][video_frame_diff]

\* C1: one getFrame call moves video_position from p to p + speed when that
\* lies within [1, video_length], and leaves it at p otherwise.
C1_AdvanceStep ==
    pc = "guard" =>
        LET t == entry_position + speed
        IN  IF t >= 1 /\ t <= reader.video_length
            THEN video_position = t
            ELSE video_position = entry_position

C1_Witness ==
    /\ pc = "guard"
    /\ speed < 0
    /\ video_position = entry_position + speed

\* C2 as stated: started inside [1, video_length], video_position never
\* leaves that range.
C2_StaysInRange ==
    reader # NoReader =>
        (video_position >= 1 /\ video_position <= reader.video_length)

\* C2 amended: started inside [1, video_length], video_position never drops
\* below 1; getFrame changes it only by speed and only to a value in range;
\* the one other change is the skip-ahead of run(), which adds
\* floor(|video_frame_diff| / 2) and may pass video_length.
C2_FloorAndSteps ==
    /\ [](video_position >= 1)
    /\ [][video_position' # video_position =>
            \/ /\ GetFrameStep
               /\ video_position' = video_position + speed
               /\ video_position' >= 1
               /\ video_position' <= reader.video_length
            \/ /\ RenderStep
               /\ video_frame_diff' < 0 - SkipThreshold
               /\ video_position' = video_position + (Abs(video_frame_diff') \div 2)]_vars

C2_Witness ==
    /\ reader # NoReader
    /\ video_position > reader.video_length
    /\ last_video_position <= reader.video_length
    /\ video_frame_diff < 0 - SkipThreshold

\* C3 as stated: a repeated getFrame call with speed 0 and the position
\* unchanged returns the frame of the previous call and calls neither the
\* reader nor the cache.
C3_PausedNeverFetches ==
    [][(GetFrameStep /\ sleep_kind = "pause" /\ speed = 0
            /\ video_position = last_video_position)
        => (frame' = frame /\ get_calls' = {})]_vars

\* C3 amended: with speed 0, the position unchanged and a non-empty frame
\* held, getFrame returns that frame and calls neither the reader nor the
\* cache; while the held frame is empty it hints the cache and fetches.
C3_PausedReusesHeldFrame ==
    [][GetFrameStep =>
        /\ (speed = 0 /\ video_position = last_video_position /\ frame # NoFrame)
              => (frame' = frame /\ get_calls' = {}
                    /\ video_position' = video_position)
        /\ frame = NoFrame
              => get_calls' = {"setCurrentFramePosition", "GetFrame"}]_vars

C3_Witness ==
    /\ pc = "guard"
    /\ sleep_kind = "pause"
    /\ speed = 0
    /\ video_position = last_video_position
    /\ frame = video_position
    /\ get_calls = {}

\* C4: with audio and video present, a video_frame_diff below -10 moves
\* video_position forward by floor(|video_frame_diff| / 2) and the iteration
\* does not sleep; a diff in [-10, 0] leaves video_position alone.
C4_SkipAhead ==
    [][(RenderStep /\ HasBoth(reader)) =>
        /\ video_frame_diff' = video_position - audio_position'
        /\ IF video_frame_diff' < 0 - SkipThreshold
           THEN /\ video_position' = video_position + (Abs(video_frame_diff') \div 2)
                /\ sleep_time' = 0
                /\ pc' = "top"
           ELSE video_frame_diff' <= 0 => video_position' = video_position]_vars

C4_Witness ==
    /\ pc = "top"
    /\ sleep_kind = "none"
    /\ HasBoth(reader)
    /\ video_frame_diff = 0 - 20
    /\ video_position = last_video_position + 10
    /\ sleep_time = 0

\* Scenario A: 24 fps, audio and video present.
ScenarioA == reader # NoReader /\ HasBoth(reader) /\ reader.fps = <<24, 1>>

\* C5 as stated: audio_position = video_position - 15 gives a skip of 7
\* frames and no sleep.
C5_AudioTrailingSkips ==
    [][(RenderStep /\ ScenarioA /\ audio_position' = video_position - 15)
        => (video_position' = video_position + 7 /\ pc' = "top")]_vars

\* C5 amended: at 24 fps it is the video trailing the audio by 15
\* (audio_position = video_position + 15) that skips 7 frames without
\* sleeping; with the audio trailing by 15 nothing is skipped and the sleep
\* is 625 ms longer.
C5_VideoTrailingSkips ==
    [][(RenderStep /\ ScenarioA) =>
        /\ audio_position' = video_position + 15
              => /\ video_position' = video_position + 7
                 /\ sleep_time' = 0
                 /\ pc' = "top"
        /\ audio_position' = video_position - 15
              => /\ video_position' = video_position
                 /\ sleep_time' = BaseSleep(reader.fps, render_time') + 625
                 /\ pc' = "sleep"]_vars

C5_Witness ==
    /\ pc = "top"
    /\ sleep_kind = "none"
    /\ ScenarioA
    /\ video_frame_diff = 0 - 15
    /\ video_position = last_video_position + 7
    /\ sleep_time = 0

\* C6 as stated: whenever video_frame_diff > 0 the final sleep_time is
\* strictly greater than the unadjusted frame_duration - render_time.
C6_AlwaysLonger ==
    video_frame_diff > 0 =>
        sleep_time > BaseSleep(reader.fps, render_time)

\* C6 amended: with video_frame_diff > 0 the final sleep_time is never less
\* than the unadjusted value, and it is strictly greater exactly when
\* video_frame_diff * frame_duration is at least one millisecond.
C6_LongerFromOneMs ==
    video_frame_diff > 0 =>
        /\ sleep_time >= BaseSleep(reader.fps, render_time)
        /\ (LeadWhole >= 1) <=>
              (sleep_time > BaseSleep(reader.fps, render_time))

C6_Witness ==
    /\ pc = "sleep"
    /\ sleep_kind = "drift"
    /\ video_frame_diff = 15
    /\ reader.fps = <<24, 1>>
    /\ sleep_time = BaseSleep(reader.fps, render_time) + 625

\* C7 as stated: every sleep of the loop, the pause sleep included, is
\* shorter than max_sleep_ms.
C7_EverySleepBounded ==
    pc = "sleep" =>
        IF sleep_kind = "pause"
        THEN FdWhole < max_sleep_ms
        ELSE sleep_time < max_sleep_ms

\* C7 amended: the sleep after drift correction (line 135) is longer than
\* zero and shorter than max_sleep_ms at every frame rate, and a corrected
\* sleep_time outside that range is not slept; the pause sleep (line 77) is
\* one frame_duration whatever max_sleep_ms is.
C7_DriftSleepBounded ==
    /\ (pc = "sleep" /\ sleep_kind = "drift")
          => (sleep_time > 0 /\ sleep_time < max_sleep_ms)
    /\ (pc = "sleep") => sleep_kind \in {"pause", "drift"}
    /\ (pc = "top" /\ sleep_kind = "none")
          => (sleep_time <= 0 \/ sleep_time >= max_sleep_ms)

C7_Witness ==
    /\ pc = "sleep"
    /\ sleep_kind = "drift"
    /\ video_frame_diff > 0
    /\ sleep_time > 600
    /\ sleep_time < max_sleep_ms

\* C8: startPlayback returns false exactly when video_position < 0 and then
\* changes no thread; otherwise it stops the running player thread first,
\* launches run() anew and returns true.
C8_StartPlayback ==
    /\ []((m_pc = "idle" /\ m_op = "start") =>
            /\ start_result \in {ResultTrue, ResultFalse}
            /\ (start_result = ResultFalse) <=> (video_position < 0))
    /\ [](m_pc = "start_thread" => (video_position >= 0 /\ ~thread_running))
    /\ [][(m_pc = "idle" /\ m_op' = "start" /\ video_position < 0) =>
            /\ UNCHANGED <<units, should_exit, pc>>
            /\ m_pc' = "idle"
            /\ start_result' = ResultFalse]_vars
    /\ [][(m_pc = "start_thread" /\ m_pc' = "idle") =>
            /\ thread_running' /\ pc' = "begin" /\ ~should_exit'
            /\ start_result' = ResultTrue]_vars

C8_Witness ==
    /\ m_pc = "idle"
    /\ m_op = "start"
    /\ start_result = ResultTrue
    /\ pc = "begin"
    /\ frame # NoFrame

\* C9: once stopPlayback has returned, none of the four threads is running.
C9_AllStoppedAfterStop ==
    (m_pc = "idle" /\ m_op = "stop") =>
        (~audio_running /\ ~cache_running /\ ~video_running /\ ~thread_running)

\* C10 as stated: a stop requested during a sleep is seen within one
\* frame_duration, whatever the drift.
C10_StopWithinOneFrame ==
    (pc = "sleep" /\ should_exit) =>
        (sleep_kind = "drift" => sleep_time <= FdWhole)

\* C10 amended: the flag is read once per iteration, at the top of the loop,
\* and a stop requested during a sleep is seen when that sleep ends: after
\* one frame_duration in the pause sleep, after at most one frame_duration
\* when video_frame_diff <= 0, and after at most
\* (1 + video_frame_diff) * frame_duration, below max_sleep_ms, when the
\* video is ahead.
C10_StopWithinCurrentSleep ==
    /\ []((pc = "sleep" /\ sleep_kind = "drift") =>
            /\ sleep_time < max_sleep_ms
            /\ video_frame_diff <= 0 => sleep_time <= FdWhole
            /\ video_frame_diff > 0 => sleep_time <= FdWhole + LeadWhole)
    /\ [][(pc = "sleep" /\ pc' # "sleep") => pc' \in {"top", "none"}]_vars
    /\ [][(pc = "top" /\ pc' # "top") =>
            IF should_exit THEN pc' = "none" /\ ~thread_running'
            ELSE pc' = "get"]_vars
    /\ [][(pc \in {"get", "guard", "signal"} /\ pc' # pc)
            => pc' \notin {"none", "begin"}]_vars

C10_Witness ==
    /\ pc = "sleep"
    /\ should_exit
    /\ sleep_kind = "drift"
    /\ video_frame_diff > 0
    /\ sleep_time > FdWhole

\* C11: a failed fetch leaves an empty frame and the loop goes on; with a
\* reader attached run() returns only after a stop request.
C11_FetchFailureGoesOn ==
    /\ [][(pc = "get" /\ pc' # "get") => pc' = "guard"]_vars
    /\ [][(pc = "guard" /\ pc' # "guard") => pc' \in {"sleep", "signal"}]_vars
    /\ [][(pc = "signal" /\ pc' # "signal") => pc' \in {"sleep", "top"}]_vars
    /\ [][(thread_running /\ ~thread_running' /\ reader # NoReader)
            => should_exit]_vars

C11_Witness ==
    /\ pc = "get"
    /\ ~should_exit
    /\ frame = NoFrame
    /\ get_calls # {}
    /\ sleep_kind = "drift"
    /\ vp_frame = NoFrame
    /\ last_video_position = video_position

\* No unit is running: neither a worker thread nor the player thread.
AllIdle ==
    ~(audio_running \/ cache_running \/ video_running \/ thread_running)

\* The four tests of stopPlayback(), in the order of lines 183-186.
StopSteps == <<"stop_audio", "stop_cache", "stop_video", "stop_self">>

\* Step i of stopPlayback() is taken.
StopStep(i) ==
    m_pc = StopSteps[i] /\ m_pc' # m_pc

\* C12: stopPlayback with no unit running asks no unit to stop, does not read
\* the reader's stream info and changes no playback state; with units running
\* it asks audio, cache, video and the player thread, in that order, each
\* exactly when it is running.
C12_StopWhenIdle ==
    /\ [][\A i \in 1..4 : (StopStep(i) /\ AllIdle) =>
            /\ AllIdle'
            /\ stop_request' = NoUnit
            /\ ~info_read'
            /\ UNCHANGED <<env, playback, units, should_exit, pc>>]_vars
    /\ [][\A i \in 1..4 : StopStep(i) =>
            /\ m_pc' = IF i < 4 THEN StopSteps[i + 1]
                       ELSE IF thread_running THEN "wait_exit" ELSE AfterStop
            /\ UNCHANGED <<env, playback>>]_vars
    /\ [][StopStep(1) => /\ (stop_request' = "audio") = audio_running
                         /\ stop_request' \in {"audio", NoUnit}
                         /\ ~audio_running']_vars
    /\ [][StopStep(2) => /\ (stop_request' = "cache") = cache_running
                         /\ stop_request' \in {"cache", NoUnit}
                         /\ ~cache_running']_vars
    /\ [][StopStep(3) => /\ (stop_request' = "video") = video_running
                         /\ stop_request' \in {"video", NoUnit}
                         /\ ~video_running']_vars
    /\ [][StopStep(4) => /\ (stop_request' = "player") = thread_running
                         /\ stop_request' \in {"player", NoUnit}
                         /\ should_exit' = (should_exit \/ thread_running)]_vars
    /\ [][(stop_request' # stop_request \/ info_read' # info_read)
            => (m_pc \in {"idle", "start_thread"} \/ \E i \in 1..4 : StopStep(i))]_vars

\* stopPlayback() has returned on a player that never had a reader: nothing
\* was asked to stop and the reader was not read.
C12_Witness ==
    /\ m_op = "stop"
    /\ m_pc = "idle"
    /\ reader = NoReader
    /\ AllIdle
    /\ stop_request = NoUnit
    /\ ~info_read
    /\ pc = "none"
    /\ start_result = ResultTrue

\* The step that leaves line 73 of run(), by either branch.
GuardStep == pc = "guard" /\ pc' # "guard"

\* C13: when the pause guard holds after getFrame, the iteration sets speed to
\* 0, sleeps exactly one frame_duration and starts over without a frame
\* assignment, a render signal, an audio seek or an audio position read, and
\* leaves last_video_position, audio_position and video_position alone; every
\* other iteration hands the frame to the renderer.
C13_PauseGuardIteration ==
    /\ [][(GuardStep /\ PauseGuard(speed, video_position, last_video_position,
                                   reader.video_length)) =>
            /\ speed' = 0
            /\ pc' = "sleep"
            /\ sleep_kind' = "pause"
            /\ sleep_for' = [unit |-> "double_ms",
                             count |-> frame_duration(reader.fps)]
            /\ run_calls' = <<>>
            /\ UNCHANGED <<vp_frame, render_pending, handoff_position, lost,
                           last_video_position, audio_position, video_position,
                           frame>>]_vars
    /\ [][(pc = "sleep" /\ sleep_kind = "pause" /\ pc' # pc) =>
            /\ pc' \in {"top", "none"}
            /\ UNCHANGED <<vp_frame, render_pending, run_calls, speed,
                           last_video_position, audio_position, video_position>>]_vars
    /\ [][(GuardStep /\ ~PauseGuard(speed, video_position, last_video_position,
                                    reader.video_length)) =>
            /\ pc' = "signal"
            /\ run_calls' = << <<"frame", frame>> >>
            /\ vp_frame' = frame]_vars
    /\ [][(pc = "signal" /\ pc' # pc) =>
            /\ Len(run_calls') >= 2
            /\ run_calls'[1] = <<"frame", frame>>
            /\ run_calls'[2] = <<"signal">>
            /\ vp_frame' = frame
            /\ render_pending'
            /\ handoff_position' = video_position]_vars

\* A paused player sleeps one frame_duration of a 24 fps stream after an
\* earlier iteration has rendered.
C13_Witness ==
    /\ pc = "sleep"
    /\ sleep_kind = "pause"
    /\ speed = 0
    /\ handed
    /\ reader.fps = <<24, 1>>
    /\ sleep_for.unit = "double_ms"
    /\ sleep_for.count = frame_duration(<<24, 1>>)
    /\ FdWhole = 41
    /\ run_calls = <<>>
    /\ video_position = last_video_position

\* C14: last_video_position is always the value video_position had at the
\* latest handoff to the renderer, or 1 before the first handoff; only a
\* rendering iteration changes it, and a skip-ahead leaves it at the position
\* handed over.
C14_LastIsHandoffPosition ==
    /\ [](last_video_position = handoff_position)
    /\ [](~handed => last_video_position = 1)
    /\ [][last_video_position' # last_video_position =>
            (RenderStep /\ last_video_position' = video_position)]_vars
    /\ [][(RenderStep /\ video_position' # video_position) =>
            (last_video_position' = video_position /\ handoff_position' = video_position)]_vars
    /\ [][handoff_position' # handoff_position => RenderStep]_vars

\* A skip-ahead has moved video_position past the position handed over.
C14_Witness ==
    /\ handed
    /\ pc = "top"
    /\ video_frame_diff < 0 - SkipThreshold
    /\ video_position > last_video_position
    /\ last_video_position = handoff_position
    /\ last_video_position > 1

\* C15: a rendering iteration with both streams seeks the audio to
\* video_position before reading the audio position when speed is not 1 and
\* does not seek when speed is 1; with a stream absent it neither seeks nor
\* reads, video_frame_diff is 0, audio_position is unchanged, sleep_time is
\* frame_duration - render_time and video_position is not skipped.
C15_AudioResync ==
    /\ [][(RenderStep /\ HasBoth(reader) /\ speed # 1) =>
            /\ SubSeq(run_calls', 3, Len(run_calls')) =
                    << <<"Seek", video_position>>, <<"getCurrentFramePosition">> >>
            /\ video_frame_diff' = video_position - audio_position']_vars
    /\ [][(RenderStep /\ HasBoth(reader) /\ speed = 1) =>
            /\ SubSeq(run_calls', 3, Len(run_calls')) =
                    << <<"getCurrentFramePosition">> >>
            /\ video_frame_diff' = video_position - audio_position']_vars
    /\ [][(RenderStep /\ ~HasBoth(reader)) =>
            /\ Len(run_calls') = 2
            /\ video_frame_diff' = 0
            /\ audio_position' = audio_position
            /\ sleep_time' = BaseSleep(reader.fps, render_time')
            /\ video_position' = video_position]_vars

\* A rendering iteration at twice the normal speed has sought the audio to the
\* position handed over and then read the audio position.
C15_Witness ==
    /\ HasBoth(reader)
    /\ speed = 2
    /\ handed
    /\ pc = "sleep"
    /\ sleep_kind = "drift"
    /\ Len(run_calls) = 4
    /\ run_calls[3] = <<"Seek", last_video_position>>
    /\ run_calls[4] = <<"getCurrentFramePosition">>
    /\ video_frame_diff = last_video_position - audio_position

\* The step in which the video thread takes the frame in its slot.
ConsumeStep == render_pending /\ ~render_pending'

\* C16: the loop never waits for the renderer before it assigns the next
\* frame or before it signals, a frame the renderer has not taken is
\* overwritten by the next assignment, and the renderer always takes the
\* frame assigned last.
C16_SingleSlotHandoff ==
    /\ []((pc = "guard"
            /\ ~PauseGuard(speed, video_position, last_video_position,
                           reader.video_length))
          => ENABLED AssignFrame)
    /\ [](pc = "signal" => ENABLED Render)
    /\ [][(AssignStep /\ handed /\ ~taken) =>
            (lost' /\ vp_frame' = frame /\ ~taken')]_vars
    /\ [][RenderStep => (render_pending' /\ vp_frame' = vp_frame)]_vars
    /\ [][ConsumeStep =>
            (displayed' = vp_frame /\ vp_frame' = vp_frame /\ taken')]_vars
    /\ [][displayed' # displayed => ConsumeStep]_vars

\* Frames 2 and 3 were handed over, frame 2 was overwritten while pending,
\* and the renderer has displayed frame 3 as its first frame.
C16_Witness ==
    /\ lost
    /\ taken
    /\ ~render_pending
    /\ speed = 1
    /\ video_position = 3
    /\ last_video_position = 3
    /\ vp_frame = 3
    /\ displayed = 3

\* C18: an empty frame returned by getFrame is assigned to the renderer slot,
\* signalled and recorded in last_video_position like any other frame, and
\* the failed fetch keeps the position advance made before it.
C18_EmptyFrameHandedOver ==
    /\ [][(AssignStep /\ frame = NoFrame) =>
            /\ vp_frame' = NoFrame
            /\ run_calls' = << <<"frame", NoFrame>> >>]_vars
    /\ [][(RenderStep /\ frame = NoFrame) =>
            /\ vp_frame' = NoFrame
            /\ run_calls'[1] = <<"frame", NoFrame>>
            /\ run_calls'[2] = <<"signal">>
            /\ render_pending'
            /\ handed'
            /\ last_video_position' = video_position]_vars
    /\ [][AssignStep => (vp_frame' = frame /\ pc' = "signal")]_vars
    /\ [][RenderStep =>
            /\ vp_frame' = frame
            /\ run_calls'[1] = <<"frame", frame>>
            /\ last_video_position' = video_position]_vars
    /\ [][(GetFrameStep /\ frame' = NoFrame) =>
            video_position' = Advance(video_position, speed, reader.video_length)]_vars

\* After a frame was on the slot, a failed fetch at an advanced position has
\* been handed over: the slot is empty.
C18_Witness ==
    /\ pc = "sleep"
    /\ sleep_kind = "drift"
    /\ lost
    /\ frame = NoFrame
    /\ vp_frame = NoFrame
    /\ run_calls[1] = <<"frame", NoFrame>>
    /\ run_calls[2] = <<"signal">>
    /\ get_calls = {"setCurrentFramePosition", "GetFrame"}
    /\ last_video_position = video_position
    /\ video_position = entry_position + speed
    /\ speed = 1

\* video_position is past the end of the stream and the speed is not negative.
Overshot ==
    /\ reader # NoReader
    /\ video_position > reader.video_length
    /\ speed >= 0

\* C19: once a skip-ahead has put video_position past video_length with
\* speed >= 0, every iteration takes the pause branch: speed becomes 0 and
\* stays 0, video_position does not change and nothing more is handed to the
\* renderer.
C19_OvershootAbsorbing ==
    /\ [][Overshot =>
            /\ Overshot'
            /\ video_position' = video_position
            /\ speed' \in {speed, 0}
            /\ UNCHANGED <<vp_frame, render_pending, handoff_position,
                           last_video_position, lost>>]_vars
    /\ [][(Overshot /\ GuardStep) =>
            (speed' = 0 /\ pc' = "sleep" /\ sleep_kind' = "pause"
                /\ run_calls' = <<>>)]_vars
    /\ [][(Overshot /\ GetFrameStep) => video_position' = video_position]_vars
    /\ [][(video_position <= reader.video_length /\ Overshot') =>
            (RenderStep /\ VideoBehind(video_frame_diff', reader))]_vars

\* After a skip-ahead past the end of the stream the loop is in its second
\* pause iteration: speed 0, position unchanged, nothing new handed over.
C19_Witness ==
    /\ Overshot
    /\ pc = "guard"
    /\ sleep_kind = "pause"
    /\ speed = 0
    /\ handed
    /\ last_video_position <= reader.video_length
    /\ handoff_position = last_video_position
    /\ video_frame_diff = 0

\* The step that makes the first handoff to the renderer.
FirstHandoff == ~handed /\ handed'

\* C20 as stated: from the constructor's state at speed 1 the first frame
\* handed to the renderer is the frame at position 2.
C20_FirstFrameIsFrameTwo ==
    [][FirstHandoff => vp_frame' = 2]_vars

\* C20 amended: from the constructor's state at speed 1 the first handoff is
\* made at position 2 and carries frame 2, or an empty frame when that fetch
\* failed; frame 1 is never handed over; from speed 0 nothing is ever handed
\* over.
C20_FirstHandoffAtTwo ==
    /\ [][FirstHandoff =>
            /\ speed = 1
            /\ handoff_position' = 2
            /\ last_video_position' = 2
            /\ vp_frame' = frame
            /\ frame \in {2, NoFrame}]_vars
    /\ [](vp_frame # 1 /\ handoff_position >= 1)
    /\ [](handed => handoff_position >= 2)
    /\ [][(speed = 0 /\ ~handed) =>
            (speed' = 0 /\ ~handed' /\ vp_frame' = NoFrame
                /\ video_position' = 1)]_vars

\* The first handoff has been made: frame 2 at position 2.
C20_Witness ==
    /\ handed
    /\ ~lost
    /\ speed = 1
    /\ handoff_position = 2
    /\ vp_frame = 2
    /\ run_calls[1] = <<"frame", 2>>
    /\ pc = "sleep"

\* The iteration that sampled a lead of d frames and measured rt microseconds
\* lasts, with its sleep of ms milliseconds, d + 1 frame durations less the
\* two truncations to whole milliseconds.
HeldLongEnough(r, d, rt, ms) ==
    (ms * UsPerMs + rt) * r.fps[1]
        > (d + 1) * MsPerSecond * UsPerMs * r.fps[2] - 2 * UsPerMs * r.fps[1]

\* The latest rendering iteration sampled a lead and slept for it.
LeadHeld == prev_drift[1] > 0 /\ prev_drift[2] > 0

\* The latest rendering iteration sampled a lead and did not sleep.
LeadNotHeld == prev_drift[1] > 0 /\ prev_drift[2] = 0

\* A rendering iteration at a position getFrame() has advanced to since the
\* previous handoff.
RenderStepOfNextFrame == RenderStep /\ video_position > handoff_position

====
